---- MODULE Spec2Model ----
(***************************************************************************)
(* Model of src/main.py: the /sse/market stream.  market_stream is a       *)
(* synchronous generator (random-walk bars, signed events, time.sleep(1)   *)
(* between bars); sse_market wraps it in an async generator that checks    *)
(* request.is_disconnected() before handing each event to the transport.   *)
(* All sessions run on the one event-loop thread of the process.           *)
(*                                                                         *)
(* Prices are integers in thousandths (68000.0 is 68000000); the rounded   *)
(* prices of a bar are integers in hundredths (round(x, 2)).  The draws    *)
(* u of random.uniform(0.0001, 0.0015) are integers in ten-thousandths     *)
(* (1..15); the draw of random.uniform(low, high) is a fraction f/FracDen  *)
(* of the way from low to high.                                            *)
(***************************************************************************)
EXTENDS Integers, Sequences, FiniteSets, TLC

VARIABLES
  environ,     \* os.environ["SIGNING_SECRET"], or Unset
  clock,       \* the wall clock, in seconds
  rng,         \* the module-level generator of `random`: values drawn so far
  pc,          \* per session: where its task stands
  request,     \* per session: the symbol query parameter of the request
  connected,   \* per session: the client still holds the connection
  observed,    \* per session: request.is_disconnected() has returned True
  symbol,      \* per session: sse_market's symbol, bound in the closure
  secret,      \* per session: market_stream's local secret
  last_close,  \* per session: market_stream's local last_close
  latency_ms,  \* per session: market_stream's local latency_ms
  event,       \* per session: the loop variable of event_generator
  gen,         \* per session: the events market_stream has yielded, in
               \* order (the last P.H of them)
  sent,        \* per session: the events handed to the transport, in order
               \* (the last P.H of them)
  count        \* per session: the disconnection checks made (checks), the
               \* time.sleep calls entered (sleeps), the events handed over
               \* after the client had closed the connection (late)

vars == <<environ, clock, rng, pc, request, connected, observed, symbol,
          secret, last_close, latency_ms, event, gen, sent, count>>

shared == <<environ, clock, rng>>

\* ------------------------------------------------------------ bounds
MaxTicks == 3
MaxLatencyTicks == 12
MaxBarTicks == 2
HistoryWindow == 2

\* ------------------------------------------------- program constants
BasePrice == 68000000
InitLatency == 50
LatencyMin == 20
LatencyMax == 250
JitterMax == 20
UMin == 1
UMax == 15
VenueCount == 18
ControlChecks == 42
SleepSeconds == 1
FracDen == 3

Unset == "<unset>"
NoParam == "<none>"
DefaultSymbol == "BTC-USD"
DefaultSecret == "demo-secret"
NoEvent == <<>>

AllSessions == {1, 2}

\* The draws and inputs a specification enumerates:
\*   S sessions, Q request parameters, J jitters, U draws of u, F draws of
\*   the close fraction, T ticks of the process (all sessions together),
\*   H events kept of each history.
\* Two concurrent sessions, every history whole.
MainProfile ==
  [S |-> {1, 2}, Q |-> {NoParam, "ETH-USD"}, J |-> {-JitterMax},
   U |-> {UMax}, F |-> {0, FracDen}, T |-> MaxTicks, H |-> MaxTicks]

\* One long session: the jitter at its extremes and in between.
LatencyProfile ==
  [S |-> {1}, Q |-> {NoParam}, J |-> {-JitterMax, -7, JitterMax},
   U |-> {UMax}, F |-> {FracDen}, T |-> MaxLatencyTicks, H |-> HistoryWindow]

\* One short session: the price draws at their extremes and in between.
BarProfile ==
  [S |-> {1}, Q |-> {NoParam}, J |-> {0},
   U |-> {UMin, 8, UMax}, F |-> 0 .. FracDen, T |-> MaxBarTicks,
   H |-> MaxBarTicks]

\* Two concurrent sessions with one draw each, for the progress properties.
FairProfile ==
  [S |-> {1, 2}, Q |-> {NoParam}, J |-> {-JitterMax},
   U |-> {UMax}, F |-> {FracDen}, T |-> MaxTicks, H |-> MaxTicks]

\* ------------------------------------------------------ pure helpers
Min(a, b) == IF a < b THEN a ELSE b
Max(a, b) == IF a > b THEN a ELSE b

\* (variant: the upper limit forgotten)
ClampLowOnly(x) == Max(LatencyMin, x)

\* (variant: an out-of-range latency restarts from the initial one)
ClampReset(x) == IF x < LatencyMin \/ x > LatencyMax THEN InitLatency ELSE x

\* max(20, min(250, latency_ms + jitter))
Clamp(x) == Max(LatencyMin, Min(LatencyMax, x))

\* round(x, 2): thousandths to hundredths, ties to even
Round2(x) ==
  LET q == x \div 10
      r == x % 10
  IN  IF r < 5 THEN q
      ELSE IF r > 5 THEN q + 1
      ELSE IF q % 2 = 0 THEN q ELSE q + 1

\* (variant: (1 + u) for the low as well)
LowPlus(open_price, u) == open_price + (open_price * u) \div 10000

\* open_price * (1 + u), open_price * (1 - u), random.uniform(low, high)
High(open_price, u) == open_price + (open_price * u) \div 10000
Low(open_price, u) == open_price - (open_price * u) \div 10000
Close(low, high, f) == low + ((high - low) * f) \div FracDen

\* os.getenv("SIGNING_SECRET", "demo-secret")
Getenv(env) == IF env = Unset THEN DefaultSecret ELSE env

\* (variant: the request's symbol ignored)
ResolveSymbolIgnored(param) == DefaultSymbol

\* symbol: str = "BTC-USD"
ResolveSymbol(param) == IF param = NoParam THEN DefaultSymbol ELSE param

\* datetime.now(timezone.utc).isoformat()
IsoFormat(now) == <<"iso8601", now, "+00:00">>

\* (variant: the count of random draws mixed into the digest)
sign_payloadSalted(sec, payload) == <<"hmac-sha256", sec, payload, rng>>

\* hmac.new(secret, payload, sha256).hexdigest(): an ideal keyed hash
sign_payload(sec, payload) == <<"hmac-sha256", sec, payload>>

Bar(t, open_price, high, low, close) ==
  [t |-> t, o |-> Round2(open_price), h |-> Round2(high),
   l |-> Round2(low), c |-> Round2(close)]

Data(now, sym, latency, bar) ==
  [ts |-> IsoFormat(now), symbol |-> sym, latency_ms |-> latency,
   venue_count |-> VenueCount, control_checks |-> ControlChecks, bar |-> bar]

\* json.dumps: the members in insertion order, as <<key, text>> pairs
DumpsBar(b) ==
  << <<"t", b.t>>, <<"o", b.o>>, <<"h", b.h>>, <<"l", b.l>>, <<"c", b.c>> >>

Dumps(d) ==
  << <<"ts", d.ts>>, <<"symbol", d.symbol>>, <<"latency_ms", d.latency_ms>>,
     <<"venue_count", d.venue_count>>, <<"control_checks", d.control_checks>>,
     <<"bar", DumpsBar(d.bar)>> >>

\* (variant: json.dumps(data, sort_keys=True) for the signed text only)
SignedTextSorted(d) ==
  << <<"bar", << <<"c", d.bar.c>>, <<"h", d.bar.h>>, <<"l", d.bar.l>>,
                 <<"o", d.bar.o>>, <<"t", d.bar.t>> >> >>,
     <<"control_checks", d.control_checks>>, <<"latency_ms", d.latency_ms>>,
     <<"symbol", d.symbol>>, <<"ts", d.ts>>,
     <<"venue_count", d.venue_count>> >>

\* payload = json.dumps(data): the text that is signed
SignedText(d) == Dumps(d)

\* (variant: the "data: " prefix left out)
WireEventNoPrefix(d, sig) ==
  <<"", << <<"payload", Dumps(d)>>, <<"sig", sig>> >>, "\n\n">>

\* f"data: {json.dumps({"payload": data, "sig": sig})}\n\n"
WireEvent(d, sig) ==
  <<"data: ", << <<"payload", Dumps(d)>>, <<"sig", sig>> >>, "\n\n">>

\* the member `key` of a JSON object text
Member(text, key) ==
  text[CHOOSE i \in 1..Len(text) : text[i][1] = key][2]

PayloadOf(ev) == Member(ev[2], "payload")
SigOf(ev) == Member(ev[2], "sig")
BarOf(ev) == Member(PayloadOf(ev), "bar")

\* (variant: last_close = close left out)
TickStaleClose(sym, sec, lat, open_price, j, u1, u2, f, now) ==
  LET latency == Clamp(lat + j)
      high == High(open_price, u1)
      low == Low(open_price, u2)
      close == Close(low, high, f)
      data == Data(now, sym, latency, Bar(now, open_price, high, low, close))
  IN  [latency_ms |-> latency, last_close |-> open_price,
       event |-> WireEvent(data, sign_payload(sec, SignedText(data)))]

\* One iteration of the while loop of market_stream, lines 87-115
Tick(sym, sec, lat, open_price, j, u1, u2, f, now) ==
  LET latency == Clamp(lat + j)
      high == High(open_price, u1)
      low == Low(open_price, u2)
      close == Close(low, high, f)
      data == Data(now, sym, latency, Bar(now, open_price, high, low, close))
  IN  [latency_ms |-> latency, last_close |-> close,
       event |-> WireEvent(data, sign_payload(sec, SignedText(data)))]

\* ----------------------------------------------------------- state
Init ==
  /\ environ = Unset
  /\ clock = 0
  /\ rng = 0
  /\ pc = [s \in AllSessions |-> "idle"]
  /\ request = [s \in AllSessions |-> NoParam]
  /\ connected = [s \in AllSessions |-> FALSE]
  /\ observed = [s \in AllSessions |-> FALSE]
  /\ symbol = [s \in AllSessions |-> ""]
  /\ secret = [s \in AllSessions |-> ""]
  /\ last_close = [s \in AllSessions |-> 0]
  /\ latency_ms = [s \in AllSessions |-> 0]
  /\ event = [s \in AllSessions |-> NoEvent]
  /\ gen = [s \in AllSessions |-> <<>>]
  /\ sent = [s \in AllSessions |-> <<>>]
  /\ count = [s \in AllSessions |-> [checks |-> 0, sleeps |-> 0, late |-> 0]]

Terminated(s) == pc[s] \in {"closed", "failed"}
Running(s) == pc[s] \in {"start", "next", "sleeping", "check", "yield"}

\* a history with one more entry, cut to its last h
Keep(seq, x, h) ==
  LET all == Append(seq, x)
  IN  IF Len(all) > h THEN Tail(all) ELSE all

\* The event loop runs one task at a time on one thread: while a task is
\* inside time.sleep no other task, and no handler, runs.
LoopFree == \A u \in AllSessions : pc[u] # "sleeping"

\* the ticks produced so far: each tick draws four values
TicksProduced == rng \div 4

\* ---------------------------------------------------------- actions
\* GET /sse/market[?symbol=q]: sse_market builds the response.  Sessions are
\* numbered in the order their requests arrive.
Connect(s, q) ==
  /\ LoopFree
  /\ pc[s] = "idle"
  /\ \A t \in AllSessions : t < s => pc[t] # "idle"
  /\ pc' = [pc EXCEPT ![s] = "start"]
  /\ request' = [request EXCEPT ![s] = q]
  /\ symbol' = [symbol EXCEPT ![s] = ResolveSymbol(q)]
  /\ connected' = [connected EXCEPT ![s] = TRUE]
  /\ UNCHANGED <<count, shared, observed, secret, last_close, latency_ms, event,
                 gen, sent>>

\* (variant: last_close kept in one module-level variable)
ProduceShared(s, sec, lat, open_price, now, P) ==
  \E j \in P.J, u1 \in P.U, u2 \in P.U, f \in P.F :
    LET r == Tick(symbol[s], sec, lat, open_price, j, u1, u2, f, now)
    IN  /\ secret' = [secret EXCEPT ![s] = sec]
        /\ latency_ms' = [latency_ms EXCEPT ![s] = r.latency_ms]
        /\ last_close' = [t \in AllSessions |-> r.last_close]
        /\ event' = [event EXCEPT ![s] = r.event]
        /\ gen' = [gen EXCEPT ![s] = Keep(@, r.event, P.H)]
        /\ rng' = rng + 4
        /\ pc' = [pc EXCEPT ![s] = "check"]

\* the body of market_stream up to its yield, from the given locals
Produce(s, sec, lat, open_price, now, P) ==
  \E j \in P.J, u1 \in P.U, u2 \in P.U, f \in P.F :
    LET r == Tick(symbol[s], sec, lat, open_price, j, u1, u2, f, now)
    IN  /\ secret' = [secret EXCEPT ![s] = sec]
        /\ latency_ms' = [latency_ms EXCEPT ![s] = r.latency_ms]
        /\ last_close' = [last_close EXCEPT ![s] = r.last_close]
        /\ event' = [event EXCEPT ![s] = r.event]
        /\ gen' = [gen EXCEPT ![s] = Keep(@, r.event, P.H)]
        /\ rng' = rng + 4
        /\ pc' = [pc EXCEPT ![s] = "check"]

\* (variant: time.sleep(1) at the top of the loop body)
StartSleepFirst(s, P) ==
  /\ LoopFree
  /\ pc[s] = "start"
  /\ TicksProduced < P.T
  /\ secret' = [secret EXCEPT ![s] = Getenv(environ)]
  /\ last_close' = [last_close EXCEPT ![s] = BasePrice]
  /\ latency_ms' = [latency_ms EXCEPT ![s] = InitLatency]
  /\ pc' = [pc EXCEPT ![s] = "sleeping"]
  /\ count' = [count EXCEPT ![s].sleeps = @ + 1]
  /\ UNCHANGED <<shared, request, connected, observed, symbol, event, gen,
                 sent>>

\* (variant: the locals of lines 82-84 taken over from a session that ran)
StartInherited(s, P) ==
  /\ LoopFree
  /\ pc[s] = "start"
  /\ TicksProduced < P.T
  /\ LET ran == {t \in AllSessions : last_close[t] # 0}
         from == IF ran = {} THEN BasePrice
                 ELSE last_close[CHOOSE t \in ran : TRUE]
     IN  Produce(s, Getenv(environ), InitLatency, from, clock, P)
  /\ UNCHANGED <<count, environ, clock, request, connected, observed, symbol,
                 sent>>

\* the first next() of the generator: lines 81-84, then the first tick
Start(s, P) ==
  /\ LoopFree
  /\ pc[s] = "start"
  /\ TicksProduced < P.T
  /\ Produce(s, Getenv(environ), InitLatency, BasePrice, clock, P)
  /\ UNCHANGED <<count, environ, clock, request, connected, observed, symbol,
                 sent>>

\* (variant: a stream that ends by itself after its first event)
ResumeLimited(s, P) ==
  /\ LoopFree
  /\ pc[s] = "next"
  /\ TicksProduced < P.T
  /\ pc' = [pc EXCEPT ![s] = "closed"]
  /\ UNCHANGED <<count, shared, request, connected, observed, symbol, secret,
                 last_close, latency_ms, event, gen, sent>>

\* a later next(): the generator resumes into time.sleep(1)
Resume(s, P) ==
  /\ LoopFree
  /\ pc[s] = "next"
  /\ TicksProduced < P.T
  /\ pc' = [pc EXCEPT ![s] = "sleeping"]
  /\ count' = [count EXCEPT ![s].sleeps = @ + 1]
  /\ UNCHANGED <<shared, request, connected, observed, symbol, secret,
                 last_close, latency_ms, event, gen, sent>>

\* (variant: os.getenv inside the loop, read again on every tick)
WakeRereads(s, P) ==
  /\ pc[s] = "sleeping"
  /\ clock' = clock + SleepSeconds
  /\ Produce(s, Getenv(environ), latency_ms[s], last_close[s],
             clock + SleepSeconds, P)
  /\ UNCHANGED <<count, environ, request, connected, observed, symbol, sent>>

\* time.sleep(1) returns; the next tick is produced
Wake(s, P) ==
  /\ pc[s] = "sleeping"
  /\ clock' = clock + SleepSeconds
  /\ Produce(s, secret[s], latency_ms[s], last_close[s],
             clock + SleepSeconds, P)
  /\ UNCHANGED <<count, environ, request, connected, observed, symbol, sent>>

\* (variant: the loop body in the other order, yield event before the check)
CheckLate(s) ==
  /\ LoopFree
  /\ pc[s] = "check"
  /\ sent' = [sent EXCEPT ![s] = Append(@, event[s])]
  /\ count' = [count EXCEPT ![s].checks = @ + 1,
                            ![s].late = IF connected[s] THEN @ ELSE @ + 1]
  /\ IF connected[s]
       THEN /\ pc' = [pc EXCEPT ![s] = "next"]
            /\ UNCHANGED observed
       ELSE /\ pc' = [pc EXCEPT ![s] = "closed"]
            /\ observed' = [observed EXCEPT ![s] = TRUE]
  /\ UNCHANGED <<shared, request, connected, symbol, secret, last_close,
                 latency_ms, event, gen>>

\* (variant: the last event flushed to the transport before the break)
CheckFlush(s) ==
  /\ LoopFree
  /\ pc[s] = "check"
  /\ IF connected[s]
       THEN /\ pc' = [pc EXCEPT ![s] = "yield"]
            /\ count' = [count EXCEPT ![s].checks = @ + 1]
            /\ UNCHANGED <<observed, sent>>
       ELSE /\ pc' = [pc EXCEPT ![s] = "closed"]
            /\ count' = [count EXCEPT ![s].checks = @ + 1,
                                      ![s].late = @ + 1]
            /\ observed' = [observed EXCEPT ![s] = TRUE]
            /\ sent' = [sent EXCEPT ![s] = Append(@, event[s])]
  /\ UNCHANGED <<shared, request, connected, symbol, secret, last_close,
                 latency_ms, event, gen>>

\* (variant: the break left out)
CheckNoBreak(s) ==
  /\ LoopFree
  /\ pc[s] = "check"
  /\ pc' = [pc EXCEPT ![s] = "yield"]
  /\ observed' = [observed EXCEPT ![s] = ~connected[s]]
  /\ count' = [count EXCEPT ![s].checks = @ + 1]
  /\ UNCHANGED <<shared, request, connected, symbol, secret, last_close,
                 latency_ms, event, gen, sent>>

\* if await request.is_disconnected(): break
Check(s) ==
  /\ LoopFree
  /\ pc[s] = "check"
  /\ IF connected[s]
       THEN /\ pc' = [pc EXCEPT ![s] = "yield"]
            /\ UNCHANGED observed
       ELSE /\ pc' = [pc EXCEPT ![s] = "closed"]
            /\ observed' = [observed EXCEPT ![s] = TRUE]
  /\ count' = [count EXCEPT ![s].checks = @ + 1]
  /\ UNCHANGED <<shared, request, connected, symbol, secret, last_close,
                 latency_ms, event, gen, sent>>

\* (variant: the event handed over twice)
EmitTwice(s, P) ==
  /\ LoopFree
  /\ pc[s] = "yield"
  /\ sent' = [sent EXCEPT ![s] = Keep(Keep(@, event[s], P.H), event[s], P.H)]
  /\ pc' = [pc EXCEPT ![s] = "next"]
  /\ count' = [count EXCEPT ![s].late = IF connected[s] THEN @ ELSE @ + 1]
  /\ UNCHANGED <<shared, request, connected, observed, symbol, secret,
                 last_close, latency_ms, event, gen>>

\* yield event: the transport takes the event
Emit(s, P) ==
  /\ LoopFree
  /\ pc[s] = "yield"
  /\ sent' = [sent EXCEPT ![s] = Keep(@, event[s], P.H)]
  /\ pc' = [pc EXCEPT ![s] = "next"]
  /\ count' = [count EXCEPT ![s].late = IF connected[s] THEN @ ELSE @ + 1]
  /\ UNCHANGED <<shared, request, connected, observed, symbol, secret,
                 last_close, latency_ms, event, gen>>

\* (variant: the failure takes every session's task down)
SendFailAll(s) ==
  /\ LoopFree
  /\ pc[s] = "yield"
  /\ pc' = [t \in AllSessions |-> IF Running(t) THEN "failed" ELSE pc[t]]
  /\ UNCHANGED <<count, shared, request, connected, observed, symbol, secret,
                 last_close, latency_ms, event, gen, sent>>

\* yield event: the write to the transport fails; nothing catches it
SendFail(s) ==
  /\ LoopFree
  /\ pc[s] = "yield"
  /\ pc' = [pc EXCEPT ![s] = "failed"]
  /\ UNCHANGED <<count, shared, request, connected, observed, symbol, secret,
                 last_close, latency_ms, event, gen, sent>>

\* the client closes the connection
Disconnect(s) ==
  /\ Running(s)
  /\ connected[s]
  /\ connected' = [connected EXCEPT ![s] = FALSE]
  /\ UNCHANGED <<count, shared, pc, request, observed, symbol, secret,
                 last_close, latency_ms, event, gen, sent>>

\* the environment's SIGNING_SECRET changes
SetEnv(v) ==
  /\ environ # v
  /\ environ' = v
  /\ UNCHANGED <<count, clock, rng, pc, request, connected, observed, symbol,
                 secret, last_close, latency_ms, event, gen, sent>>

SessionStep(s, P) ==
  \/ \E q \in P.Q : Connect(s, q)
  \/ Start(s, P)
  \/ Resume(s, P)
  \/ Wake(s, P)
  \/ Check(s)
  \/ Emit(s, P)
  \/ SendFail(s)

\* two concurrent sessions, clients that disconnect, an environment that
\* changes
Next ==
  \/ \E s \in MainProfile.S : SessionStep(s, MainProfile)
  \/ \E s \in MainProfile.S : Disconnect(s)
  \/ SetEnv("k1")

Spec == Init /\ [][Next]_vars

\* one long session
NextLatency ==
  \/ \E s \in LatencyProfile.S : SessionStep(s, LatencyProfile)
  \/ \E s \in LatencyProfile.S : Disconnect(s)

SpecLatency == Init /\ [][NextLatency]_vars

\* one short session, every price draw
NextBars ==
  \/ \E s \in BarProfile.S : SessionStep(s, BarProfile)
  \/ \E s \in BarProfile.S : Disconnect(s)

SpecBars == Init /\ [][NextBars]_vars

\* the steps of session s's task: the event loop runs every ready task, a
\* time.sleep returns, and a write to the transport ends (done or failed)
TaskStep(s, P) ==
  \/ Start(s, P)
  \/ Resume(s, P)
  \/ Wake(s, P)
  \/ Check(s)
  \/ Emit(s, P)
  \/ SendFail(s)

\* two concurrent sessions under fair scheduling of their tasks; requests
\* and disconnects come when the clients choose
NextFair ==
  \/ \E s \in FairProfile.S : SessionStep(s, FairProfile)
  \/ \E s \in FairProfile.S : Disconnect(s)

SpecFair ==
  /\ Init
  /\ [][NextFair]_vars
  /\ \A s \in FairProfile.S : WF_vars(TaskStep(s, FairProfile))

\* the session waits only for the tick budget of the model
OutOfTicks(s, P) == TicksProduced >= P.T /\ pc[s] \in {"start", "next"}

\* ------------------------------------------------------------ claims
SymbolOf(ev) == Member(PayloadOf(ev), "symbol")
LatencyOf(ev) == Member(PayloadOf(ev), "latency_ms")
OpenOf(ev) == Member(BarOf(ev), "o")
CloseOf(ev) == Member(BarOf(ev), "c")
TimeOf(ev) == Member(BarOf(ev), "t")

\* everything a session owns
Own(s) ==
  <<pc[s], request[s], observed[s], symbol[s], secret[s], last_close[s],
    latency_ms[s], event[s], gen[s], sent[s]>>

\* the step is one of session s's task
StepOf(s) == pc'[s] # pc[s]

\* C1: once request.is_disconnected() has reported the disconnect, in that
\* step and in every later one, nothing more is handed to the transport for
\* the session.
C1_NoEventAfterDisconnect ==
  [][\A s \in AllSessions : observed'[s] => sent'[s] = sent[s]]_vars

C1_Witness ==
  \E s \in AllSessions : observed[s] /\ pc[s] = "closed" /\ Len(sent[s]) >= 1

\* C2: while a session is inside its 1-second pause, every other session
\* that waits at its disconnection check or at its yield can take that step.
C2_PauseBlocksNobody ==
  \A s, t \in AllSessions :
    (s # t /\ pc[s] = "sleeping" /\ pc[t] \in {"check", "yield"})
      => ENABLED (Check(t) \/ Emit(t, MainProfile))

\* C3: the open of every emitted bar is the close of the bar emitted before
\* it in the session; the first open is round(base_price, 2).
C3_Continuity ==
  \A s \in AllSessions : \A k \in 1 .. Len(sent[s]) :
    OpenOf(sent[s][k]) =
      IF k = 1 THEN 6800000 ELSE CloseOf(sent[s][k - 1])

C3_Witness ==
  \E s \in AllSessions :
    /\ Len(sent[s]) = 2
    /\ OpenOf(sent[s][2]) # 6800000
    /\ CloseOf(sent[s][2]) * 10 # last_close[s]
    /\ CloseOf(sent[s][2]) # OpenOf(sent[s][2])

\* C4: the latency_ms of every envelope, and the session's latency_ms once
\* its generator runs, lies in 20..250.
C4_LatencyBound ==
  \A s \in AllSessions :
    /\ pc[s] \notin {"idle", "start"} => latency_ms[s] \in 20 .. 250
    /\ \A k \in 1 .. Len(gen[s]) : LatencyOf(gen[s][k]) \in 20 .. 250

\* two ticks in a row at the upper limit: the second was cut by the clamp
C4_Witness ==
  \E s \in AllSessions :
    /\ Len(sent[s]) = 2
    /\ LatencyOf(sent[s][1]) = 250
    /\ LatencyOf(sent[s][2]) = 250

\* C5 as claimed: a step of one session's task changes nothing that another
\* session owns and nothing that sessions share.
C5_NothingSharedIsWritten ==
  [][\A s \in AllSessions :
       StepOf(s) => /\ \A t \in AllSessions \ {s} : Own(t)' = Own(t)
                    /\ environ' = environ
                    /\ rng' = rng]_vars

\* C5 as amended: a step of one session's task changes nothing that another
\* session owns and not the signing secret of the environment; the
\* generator of `random` is shared, and every tick advances it.
C5_SessionStateIsOwned ==
  [][\A s \in AllSessions :
       StepOf(s) => /\ \A t \in AllSessions \ {s} : Own(t)' = Own(t)
                    /\ environ' = environ
                    /\ gen'[s] # gen[s] => rng' = rng + 4]_vars

\* two sessions with the same symbol whose closes have diverged
C5_Witness ==
  \E s, t \in AllSessions :
    /\ s # t
    /\ symbol[s] = symbol[t]
    /\ Len(gen[s]) >= 1 /\ Len(gen[t]) >= 1
    /\ last_close[s] # last_close[t]

\* C6: the signature of every event is sign_payload(the session's secret,
\* the payload text of that same event).
C6_SignedIsTransmitted ==
  \A s \in AllSessions : \A k \in 1 .. Len(gen[s]) :
    SigOf(gen[s][k]) = <<"hmac-sha256", secret[s], PayloadOf(gen[s][k])>>

C6_Witness ==
  \E s \in AllSessions :
    /\ Len(sent[s]) = 2
    /\ PayloadOf(sent[s][1]) # PayloadOf(sent[s][2])
    /\ secret[s] = "k1"

\* C7: the symbol of every envelope of a session is the symbol of its
\* request, "BTC-USD" when the request gives none.
C7_SymbolPropagation ==
  \A s \in AllSessions : \A k \in 1 .. Len(gen[s]) :
    SymbolOf(gen[s][k]) =
      IF request[s] = NoParam THEN "BTC-USD" ELSE request[s]

C7_Witness ==
  \E s, t \in AllSessions :
    /\ request[s] = NoParam /\ Len(sent[s]) >= 1
    /\ request[t] = "ETH-USD" /\ Len(sent[t]) >= 2

\* C8: the k-th event handed to the transport is the k-th event the
\* generator yielded, and the bar times of successive events do not
\* decrease.
C8_Ordering ==
  \A s \in AllSessions :
    /\ Len(sent[s]) <= Len(gen[s])
    /\ \A k \in 1 .. Len(sent[s]) : sent[s][k] = gen[s][k]
    /\ \A k \in 1 .. Len(sent[s]) - 1 :
         TimeOf(sent[s][k]) <= TimeOf(sent[s][k + 1])

C8_Witness ==
  \E s \in AllSessions :
    /\ Len(sent[s]) = 3
    /\ TimeOf(sent[s][1]) < TimeOf(sent[s][3])

\* C9: a step in which the write of one session fails ends that session
\* only: what every other session owns is unchanged, and the event loop is
\* left free for them and for new requests.
C9_FailureIsolation ==
  [][\A s \in AllSessions :
       (pc[s] = "yield" /\ pc'[s] = "failed")
         => /\ \A t \in AllSessions \ {s} : Own(t)' = Own(t)
            /\ shared' = shared
            /\ LoopFree']_vars

\* one session has failed, another one was handed an event afterwards
C9_Witness ==
  \E s, t \in AllSessions :
    /\ pc[s] = "failed"
    /\ Running(t)
    /\ Len(gen[s]) >= 1 /\ Len(sent[t]) >= 1
    /\ TimeOf(sent[t][Len(sent[t])]) > TimeOf(gen[s][Len(gen[s])])

\* C10: a terminated session stays as it is; and the first event of every
\* session is made from the initial locals: its open is round(68000.0, 2),
\* its latency 50 plus one jitter.
C10_TerminatedFinalFreshStart ==
  [][\A s \in AllSessions :
       /\ Terminated(s) => Own(s)' = Own(s)
       /\ Len(gen'[s]) >= 1 =>
            /\ OpenOf(gen'[s][1]) = 6800000
            /\ LatencyOf(gen'[s][1]) \in 30 .. 70]_vars

\* a session starts after another one has moved its price and terminated
C10_Witness ==
  \E s, t \in AllSessions :
    /\ s # t
    /\ Terminated(s) /\ last_close[s] # 68000000
    /\ Len(gen[t]) >= 1
    /\ TimeOf(gen[t][1]) > TimeOf(gen[s][1])

\* the keys of a JSON object text, in order
Keys(text) == [i \in 1 .. Len(text) |-> text[i][1]]

C12_WireFormat ==
  [][\A s \in AllSessions :
       /\ \A k \in 1 .. Len(sent'[s]) :
            LET ev == sent'[s][k]
            IN  /\ Len(ev) = 3
                /\ ev[1] = "data: "
                /\ ev[3] = "\n\n"
                /\ Keys(ev[2]) = <<"payload", "sig">>
                /\ Keys(PayloadOf(ev)) =
                     <<"ts", "symbol", "latency_ms", "venue_count",
                       "control_checks", "bar">>
                /\ Member(PayloadOf(ev), "venue_count") = 18
                /\ Member(PayloadOf(ev), "control_checks") = 42
                /\ Keys(BarOf(ev)) = <<"t", "o", "h", "l", "c">>
       /\ (Terminated(s)' /\ ~Terminated(s)) => sent'[s] = sent[s]]_vars

C12_Witness ==
  \E s \in AllSessions :
    /\ pc[s] = "closed"
    /\ Len(sent[s]) = 2
    /\ sent[s][1][1] = "data: "

\* C13: every tick has its disconnection check, made before the tick's
\* event is handed over and before the sleep that follows it; a check that
\* reports the disconnect terminates the session in that step, with the
\* tick's event not handed over and its sleep not entered.
C13_CheckPlacement ==
  \A s \in AllSessions :
    /\ count[s].checks = Len(gen[s]) - (IF pc[s] = "check" THEN 1 ELSE 0)
    /\ Len(sent[s]) <= count[s].checks
    /\ count[s].sleeps <= Len(sent[s])
    /\ observed[s] =>
         /\ pc[s] = "closed"
         /\ Len(sent[s]) = count[s].checks - 1
         /\ count[s].sleeps = count[s].checks - 1

C13_Witness ==
  \E s \in AllSessions :
    /\ observed[s]
    /\ count[s].checks = 2
    /\ count[s].sleeps = 1
    /\ Len(sent[s]) = 1

\* C14: a session enters time.sleep once per tick, after the tick's event
\* was handed over: with n events yielded it has slept n - 1 times (n while
\* it sleeps), none before its first event, and successive events handed
\* over are at least one second apart.
C14_Cadence ==
  \A s \in AllSessions :
    /\ count[s].sleeps =
         IF Len(gen[s]) = 0 THEN 0
         ELSE Len(gen[s]) - 1 + (IF pc[s] = "sleeping" THEN 1 ELSE 0)
    /\ pc[s] = "sleeping" => Len(sent[s]) = Len(gen[s])
    /\ \A k \in 1 .. Len(sent[s]) - 1 :
         TimeOf(sent[s][k + 1]) >= TimeOf(sent[s][k]) + 1

C14_Witness ==
  \E s \in AllSessions :
    /\ Len(sent[s]) = 3
    /\ count[s].sleeps = 2
    /\ TimeOf(sent[s][3]) = TimeOf(sent[s][1]) + 2

\* C15: a running session whose client has disconnected is eventually
\* terminated (within the tick budget), and at most one event is handed to
\* the transport after the disconnect.
C15_EventualTermination ==
  /\ [](\A s \in AllSessions : count[s].late <= 1)
  /\ \A s \in AllSessions :
       (Running(s) /\ ~connected[s])
         ~> (Terminated(s) \/ OutOfTicks(s, FairProfile))

\* a session closed by an observed disconnect after one late event
C15_Witness ==
  \E s \in AllSessions :
    /\ pc[s] = "closed" /\ observed[s]
    /\ count[s].late = 1
    /\ Len(sent[s]) = 1

\* C16: a session leaves Running only by an observed disconnect or a failed
\* write; and a running session is eventually terminated in one of these
\* ways or has handed over every event it produced and goes on producing
\* until the tick budget is used up.
C16_UnboundedStream ==
  /\ [][\A s \in AllSessions :
          (Terminated(s)' /\ ~Terminated(s))
            => (~connected[s] \/ pc'[s] = "failed")]_vars
  /\ \A s \in AllSessions :
       Running(s)
         ~> (Terminated(s)
               \/ (OutOfTicks(s, FairProfile) /\ Len(sent[s]) = Len(gen[s])))

\* a connected session that has handed over as many events as the budget has
C16_Witness ==
  \E s \in AllSessions :
    /\ pc[s] = "next" /\ connected[s]
    /\ Len(sent[s]) = FairProfile.T
    /\ count[s].sleeps = FairProfile.T - 1

HighOf(ev) == Member(BarOf(ev), "h")
LowOf(ev) == Member(BarOf(ev), "l")

\* the open of the session's next bar
NextOpen(s) == IF pc[s] \in {"idle", "start"} THEN 68000000 ELSE last_close[s]

\* C17: every bar a session yields has l <= o <= h and l <= c <= h on its
\* rounded prices; and from every open the session reaches, every draw u in
\* 0.0001 .. 0.0015 gives low < open < high on the unrounded prices.
C17_BarShape ==
  \A s \in AllSessions :
    /\ \A k \in 1 .. Len(gen[s]) :
         LET ev == gen[s][k]
         IN  /\ LowOf(ev) <= OpenOf(ev) /\ OpenOf(ev) <= HighOf(ev)
             /\ LowOf(ev) <= CloseOf(ev) /\ CloseOf(ev) <= HighOf(ev)
    /\ \A u \in 1 .. 15 :
         /\ Low(NextOpen(s), u) < NextOpen(s)
         /\ NextOpen(s) < High(NextOpen(s), u)

\* a second bar with the close strictly inside, away from the open
C17_Witness ==
  \E s \in AllSessions :
    /\ Len(gen[s]) = 2
    /\ LowOf(gen[s][2]) < CloseOf(gen[s][2])
    /\ CloseOf(gen[s][2]) < OpenOf(gen[s][2])
    /\ OpenOf(gen[s][2]) < HighOf(gen[s][2])
    /\ OpenOf(gen[s][2]) # 6800000

\* the secret an event was signed with
KeyOf(ev) == SigOf(ev)[2]

\* C18: a session's symbol does not change after its request, its secret
\* does not change after the generator's first step, which reads it from
\* the environment ("demo-secret" when unset), and every event of the
\* session is signed with that one secret whatever the environment becomes.
C18_ConfigImmutable ==
  [][\A s \in AllSessions :
       /\ pc[s] # "idle" => symbol'[s] = symbol[s]
       /\ pc[s] \notin {"idle", "start"} => secret'[s] = secret[s]
       /\ (pc[s] = "start" /\ pc'[s] # "start") =>
            secret'[s] = IF environ = "<unset>" THEN "demo-secret"
                         ELSE environ
       /\ \A k \in 1 .. Len(gen'[s]) : KeyOf(gen'[s][k]) = secret'[s]]_vars

\* a tick signed with the default secret after the environment got one
C18_Witness ==
  \E s \in AllSessions :
    /\ Len(gen[s]) = 2
    /\ pc[s] = "check"
    /\ environ = "k1"
    /\ KeyOf(gen[s][2]) = "demo-secret"
    /\ symbol[s] = "ETH-USD"

\* C19: a session has yielded as many events as it has handed over, or one
\* more; it asks for the next one only when they are equal; and when it is
\* closed by an observed disconnect exactly one event, the last one
\* yielded, was never handed over, with last_close already at its close.
C19_PullDriven ==
  \A s \in AllSessions :
    LET n == Len(gen[s])
    IN  /\ n - Len(sent[s]) \in {0, 1}
        /\ pc[s] \in {"next", "sleeping"} => n = Len(sent[s])
        /\ pc[s] = "closed" =>
             /\ n = Len(sent[s]) + 1
             /\ event[s] = gen[s][n]
             /\ \A k \in 1 .. Len(sent[s]) : sent[s][k] # gen[s][n]
             /\ Round2(last_close[s]) = CloseOf(gen[s][n])

\* closed after two events handed over and a third one dropped
C19_Witness ==
  \E s \in AllSessions :
    /\ pc[s] = "closed"
    /\ Len(gen[s]) = 3
    /\ Len(sent[s]) = 2
    /\ Round2(last_close[s]) # CloseOf(sent[s][2])

Abs(x) == IF x < 0 THEN -x ELSE x

\* C20: the latency_ms of consecutive events of a session differ by at
\* most 20; the first tick's latency_ms lies in 30 .. 70; and every later
\* tick leaves latency_ms within 20 of its previous value and puts that
\* value in the event.
C20_LatencyStep ==
  [][\A s \in AllSessions :
       /\ \A k \in 1 .. Len(gen'[s]) - 1 :
            Abs(LatencyOf(gen'[s][k + 1]) - LatencyOf(gen'[s][k])) <= 20
       /\ (pc[s] = "start" /\ pc'[s] = "check") =>
            /\ latency_ms'[s] \in 30 .. 70
            /\ LatencyOf(event'[s]) = latency_ms'[s]
       /\ (pc[s] = "sleeping" /\ pc'[s] = "check") =>
            /\ Abs(latency_ms'[s] - latency_ms[s]) <= 20
            /\ LatencyOf(event'[s]) = latency_ms'[s]]_vars

\* a jitter of -20 from 30: the clamp cut the step to -10
C20_Witness ==
  \E s \in AllSessions :
    /\ Len(gen[s]) = 2
    /\ pc[s] = "check"
    /\ LatencyOf(gen[s][1]) = 30
    /\ LatencyOf(gen[s][2]) = 20
    /\ latency_ms[s] = 20

====
